---- MODULE Spec2Model ----
(***************************************************************************)
(* Model of the client-go demonstration programs of l077j/clientgo_demo.    *)
(*                                                                         *)
(* The source files are concatenations of several `package main` programs: *)
(*   src/dynamicClient/main.go:1-93       dynamic lister        "dynamic"   *)
(*   src/dynamicClient/main.go:95-234     typed REST lister     "restA"     *)
(*   src/restclientdemo-1/main.go:1-68    typed REST lister     "restB"     *)
(*   src/restclientdemo-1/main.go:70-394  provisioner           "provA"     *)
(*   src/restclientdemo-1/main.go:396-560 provisioner           "provB"     *)
(*   src/unnamed/part_000                 capability discovery  "discovery" *)
(*                                                                         *)
(* One program runs at a time against a cluster whose objects persist from *)
(* one run to the next.  Every cluster call is split into the step that    *)
(* issues it and the step in which it returns and the program goes on to   *)
(* its next call; steps that only build local objects are one action.      *)
(* The cluster is the environment: a call may fail for any reason, a create *)
(* of an existing name and a delete of a missing name always fail.          *)
(***************************************************************************)
EXTENDS Integers, Sequences, FiniteSets, TLC

VARIABLES
    prog,               \* the program being run, "none" before the first run
    pc,                 \* position of the running program
    status,             \* "idle", "running", "exited", "panicked"
    panicMsg,           \* the value handed to panic(), "" when none
    operate,            \* value of the -operate flag (provisioner)
    err,                \* the Go variable err of main, "nil" when nil
    clientSet,          \* the typed clientset of the REST lister: "nil" or "set"
    calls,              \* cluster calls issued by this run, with their results
    failed,             \* message of the first step of this run that returned an error
    out,                \* lines printed by this run
    namespaces,         \* REST lister: the namespace names returned by the list call
    idx,                \* REST lister / discovery: position of the range loop
    result,             \* REST lister: the PodList `result`; dynamic lister: unstructObj
    before,             \* the provisioned group as it was when this run started
    prev,               \* summary of the run before this one
    clusterNamespaces,  \* cluster: namespace names
    clusterDeployments, \* cluster: deployment objects
    clusterServices,    \* cluster: service objects
    clusterPods         \* cluster: pods, in the order the API returns them

vars == <<prog, pc, status, panicMsg, operate, err, clientSet, calls, failed, out,
          namespaces, idx, result, before, prev,
          clusterNamespaces, clusterDeployments, clusterServices, clusterPods>>

runVars == <<prog, operate, before, prev>>
clusterVars == <<clusterNamespaces, clusterDeployments, clusterServices, clusterPods>>
loopVars == <<namespaces, idx, result>>

----------------------------------------------------------------------------
(* Bounds *)

MaxPods == 2

----------------------------------------------------------------------------
(* Program constants *)

NAMESPACE == "test-clientset"
DEPLOYMENT_NAME == "client-test-deployment"
SERVICE_NAME == "client-test-service"

\* the dynamic lister asking for another namespace
DynamicNamespaceDefault == "default"

DynamicNamespace == "kube-system"
DynamicLimit == 100
RestLimit == 500

Programs == {"dynamic", "restA", "restB", "provA", "provB", "discovery"}
Provisioners == {"provA", "provB"}
RestListers == {"restA", "restB"}
Listers == RestListers \cup {"dynamic"}

\* values of -operate the model tries: the default, clean, and two unrecognised ones
OperateValues == {"create", "clean", "delete", ""}

----------------------------------------------------------------------------
(* Values *)

Nil == <<>>

Range(s) == {s[i] : i \in 1..Len(s)}

Last(s) == s[Len(s)]

\* the first n elements of s (the item limit of a list call)
Take(s, n) == SubSeq(s, 1, IF Len(s) < n THEN Len(s) ELSE n)

NamespaceObject == [name |-> NAMESPACE]

\* replicas = 0 stands for the omitted Replicas field of the second provisioner
DeploymentObject(p) ==
    [name           |-> DEPLOYMENT_NAME,
     namespace      |-> NAMESPACE,
     replicas       |-> IF p = "provA" THEN 2 ELSE 0,
     selector       |-> [app |-> "tomcat"],
     templateLabels |-> [app |-> "tomcat"],
     container      |-> [name |-> "tomcat", image |-> "tomcat:8.0.18-jre8",
                         imagePullPolicy |-> "IfNotPresent",
                         port |-> 8080, protocol |-> "SCTP"]]

\* a service whose selector does not match the deployment's labels
ServiceObjectOtherSelector ==
    [name      |-> SERVICE_NAME,
     namespace |-> NAMESPACE,
     type      |-> "NodePort",
     port      |-> 8080,
     nodePort  |-> 30080,
     selector  |-> [app |-> "nginx"]]

ServiceObject ==
    [name      |-> SERVICE_NAME,
     namespace |-> NAMESPACE,
     type      |-> "NodePort",
     port      |-> 8080,
     nodePort  |-> 30080,
     selector  |-> [app |-> "tomcat"]]

\* main calling createDeployment before createNamespace
CreateSequenceSwapped == <<"createDeployment", "createNamespace", "createService">>

\* the order in which main calls the three create functions
CreateSequence == <<"createNamespace", "createDeployment", "createService">>

\* clean without its Delete call for the deployment
CleanSequenceNoDeployment == <<"deleteService", "deleteNamespace">>

\* clean deleting the namespace first
CleanSequenceReversed == <<"deleteNamespace", "deleteDeployment", "deleteService">>

\* the order of the three Delete calls of clean
CleanSequence == <<"deleteService", "deleteDeployment", "deleteNamespace">>

\* main testing for "create" instead of "clean"
BranchOnCreate(op) == IF op = "create" THEN "create" ELSE "clean"

\* the branch main takes for a value of -operate
Branch(op) == IF op = "clean" THEN "clean" ELSE "create"

\* a sequence whose steps are run again after they succeed
StepAfterSame(seq, s) == s

\* the step that follows step s in seq, "exit" after the last one
StepAfter(seq, s) ==
    LET i == CHOOSE k \in 1..Len(seq) : seq[k] = s
    IN  IF i < Len(seq) THEN seq[i + 1] ELSE "exit"

----------------------------------------------------------------------------
(* The cluster *)

BaseNamespaces == <<"default", "kube-system">>
Phases == {"Running", "Pending"}

Pod(ns, name, phase) == [namespace |-> ns, name |-> name, phase |-> phase]

\* pod sets of the simulated cluster: pod i is named <<"pod", i>>, lives in one
\* of the base namespaces and has one of the phases
PodName(i) == <<"pod", i>>

PodSets ==
    UNION {[1..n -> {Pod(ns, "p", ph) : ns \in Range(BaseNamespaces), ph \in Phases}]
             : n \in 0..MaxPods}

NamePods(f) == [i \in 1..Len(f) |-> [f[i] EXCEPT !.name = PodName(i)]]

NamespaceExists == NAMESPACE \in Range(clusterNamespaces)
DeploymentExists ==
    \E i \in 1..Len(clusterDeployments) :
        /\ clusterDeployments[i].name = DEPLOYMENT_NAME
        /\ clusterDeployments[i].namespace = NAMESPACE
ServiceExists ==
    \E i \in 1..Len(clusterServices) :
        /\ clusterServices[i].name = SERVICE_NAME
        /\ clusterServices[i].namespace = NAMESPACE

\* what a create call can return: a name that exists is always rejected
CreateOutcomes(exists) ==
    IF exists THEN {"AlreadyExists", "Unavailable"} ELSE {"ok", "Unavailable"}

\* what a delete call can return: a missing name is always rejected
DeleteOutcomes(exists) ==
    IF exists THEN {"ok", "Unavailable"} ELSE {"NotFound", "Unavailable"}

ListOutcomes == {"ok", "Unavailable"}

\* the provisioned group as the cluster holds it
Group ==
    [namespaces  |-> SelectSeq(clusterNamespaces, LAMBDA n : n = NAMESPACE),
     deployments |-> clusterDeployments,
     services    |-> clusterServices]

EmptyGroup == [namespaces |-> <<>>, deployments |-> <<>>, services |-> <<>>]

----------------------------------------------------------------------------
(* Steps shared by the programs *)

\* a cluster call as the run's log keeps it: the namespace it is scoped to
\* ("" for a cluster-wide one), the object name ("" for a list) and the result
Call(verb, kind, ns, name) ==
    [verb |-> verb, kind |-> kind, ns |-> ns, name |-> name, result |-> "pending"]

\* positions of a program: about to run a step, or blocked in the call of a step
At(step) == <<step, "at">>
\* a call the program does not wait for
WaitingNowhere(step) == <<step, "at">>

Waiting(step) == <<step, "wait">>

Issue(c) == calls' = Append(calls, c)

Return(r) == calls' = [calls EXCEPT ![Len(calls)].result = r]

ErrMsg(step, reason) == <<step, reason>>

\* a call whose error is never looked at
ErrIgnored(r) == FALSE

\* the test `err != nil` that follows a call which returned r
ErrNotNil(r) == r # "ok"

\* the program goes on to step p; "exit" is the return from main
Continue(p) ==
    /\ pc' = IF p = "exit" THEN At("done") ELSE At(p)
    /\ status' = IF p = "exit" THEN "exited" ELSE "running"
    /\ err' = Nil
    /\ UNCHANGED <<panicMsg, failed>>

\* if err != nil { panic(err.Error()) }
Abort(m) ==
    /\ pc' = At("done")
    /\ status' = "panicked"
    /\ panicMsg' = m
    /\ err' = m
    /\ failed' = IF failed = Nil THEN m ELSE failed

Init ==
    /\ prog = "none"
    /\ pc = At("done")
    /\ status = "idle"
    /\ panicMsg = Nil
    /\ operate = ""
    /\ err = Nil
    /\ clientSet = "nil"
    /\ calls = <<>>
    /\ failed = Nil
    /\ out = <<>>
    /\ namespaces = <<>>
    /\ idx = 0
    /\ result = <<>>
    /\ before = EmptyGroup
    /\ prev = [kind |-> "none", ok |-> FALSE, fromEmpty |-> FALSE, rows |-> <<>>]
    /\ clusterNamespaces = BaseNamespaces
    /\ clusterDeployments = <<>>
    /\ clusterServices = <<>>
    /\ clusterPods \in {NamePods(f) : f \in PodSets}

\* the rows a lister printed (the header line has one field)
Rows(o) == SelectSeq(o, LAMBDA l : Len(l) = 3)

RunKind ==
    CASE prog \in Provisioners -> Branch(operate)
      [] prog \in RestListers  -> "rest"
      [] OTHER                 -> prog

\* a program is started from the command line once the one before it has ended
StartRun(p, flag) ==
    /\ status # "running"
    /\ prog' = p
    /\ operate' = IF p \in Provisioners THEN flag ELSE ""
    /\ prev' = [kind      |-> RunKind,
                ok        |-> status = "exited",
                fromEmpty |-> before = EmptyGroup,
                rows      |-> IF prog \in Listers /\ status = "exited"
                              THEN Rows(out) ELSE <<>>]
    /\ before' = Group
    /\ pc' = At("BuildConfigFromFlags")
    /\ status' = "running"
    /\ panicMsg' = Nil
    /\ err' = Nil
    /\ clientSet' = "nil"
    /\ calls' = <<>>
    /\ failed' = Nil
    /\ out' = <<>>
    /\ namespaces' = <<>>
    /\ idx' = 0
    /\ result' = <<>>
    /\ UNCHANGED clusterVars

\* the first step after the configuration is loaded
FirstStep(p) ==
    CASE p \in Provisioners -> "NewForConfig"
      [] p \in RestListers  -> "RESTClientFor"
      [] p = "dynamic"      -> "dynamic.NewForConfig"
      [] OTHER              -> "NewDiscoveryClientForConfig"

\* config, err := clientcmd.BuildConfigFromFlags("", *kubeconfig), in every main
BuildConfigFromFlags(ok) ==
    /\ status = "running"
    /\ pc = At("BuildConfigFromFlags")
    /\ IF ok THEN Continue(FirstStep(prog))
             ELSE Abort(ErrMsg("BuildConfigFromFlags", "invalid configuration"))
    /\ UNCHANGED <<runVars, clusterVars, loopVars, clientSet, calls, out>>

----------------------------------------------------------------------------
(* The provisioner: src/restclientdemo-1/main.go:111 and :418 *)

\* clientset, err := kubernetes.NewForConfig(config), the operate line and
\* the branch on *operate
NewForConfig(ok) ==
    /\ status = "running"
    /\ prog \in Provisioners
    /\ pc = At("NewForConfig")
    /\ IF ok
       THEN /\ out' = Append(out, <<"operate is", operate>>)
            /\ Continue(IF Branch(operate) = "clean"
                        THEN CleanSequence[1] ELSE CreateSequence[1])
       ELSE /\ out' = out
            /\ Abort(ErrMsg("NewForConfig", "invalid configuration"))
    /\ UNCHANGED <<runVars, clusterVars, loopVars, clientSet, calls>>

\* a provisioner function up to the moment its Create or Delete call is sent
IssueStep(step, verb, kind, ns, name) ==
    /\ status = "running"
    /\ prog \in Provisioners
    /\ pc = At(step)
    /\ Issue(Call(verb, kind, ns, name))
    /\ pc' = Waiting(step)
    /\ UNCHANGED <<runVars, clusterVars, loopVars, clientSet, out,
                   status, panicMsg, err, failed>>

\* the call of a provisioner function returns r: panic on an error, else the
\* confirmation line and the next step of seq
ReturnStep(step, seq, r, line) ==
    /\ status = "running"
    /\ prog \in Provisioners
    /\ pc = Waiting(step)
    /\ Return(r)
    /\ IF ErrNotNil(r)
       THEN /\ out' = out
            /\ Abort(ErrMsg(step, r))
       ELSE /\ out' = out \o line
            /\ Continue(StepAfter(seq, step))
    /\ UNCHANGED <<runVars, loopVars, clientSet>>

createNamespaceIssue ==
    IssueStep("createNamespace", "create", "namespace", "", NamespaceObject.name)

createNamespaceReturn ==
    \E r \in CreateOutcomes(NamespaceExists) :
        /\ ReturnStep("createNamespace", CreateSequence, r,
                      <<<<"Create namespace", NamespaceObject.name>>>>)
        /\ clusterNamespaces' = IF r = "ok"
                                THEN Append(clusterNamespaces, NamespaceObject.name)
                                ELSE clusterNamespaces
        /\ UNCHANGED <<clusterDeployments, clusterServices, clusterPods>>

createDeploymentIssue ==
    IssueStep("createDeployment", "create", "deployment", NAMESPACE, DeploymentObject(prog).name)

createDeploymentReturn ==
    \E r \in CreateOutcomes(DeploymentExists) :
        /\ ReturnStep("createDeployment", CreateSequence, r,
                      <<<<"Create deployment", DeploymentObject(prog).name>>>>)
        /\ clusterDeployments' = IF r = "ok"
                                 THEN Append(clusterDeployments, DeploymentObject(prog))
                                 ELSE clusterDeployments
        /\ UNCHANGED <<clusterNamespaces, clusterServices, clusterPods>>

createServiceIssue ==
    IssueStep("createService", "create", "service", NAMESPACE, ServiceObject.name)

createServiceReturn ==
    \E r \in CreateOutcomes(ServiceExists) :
        /\ ReturnStep("createService", CreateSequence, r,
                      <<<<"Create service", ServiceObject.name>>>>)
        /\ clusterServices' = IF r = "ok"
                              THEN Append(clusterServices, ServiceObject)
                              ELSE clusterServices
        /\ UNCHANGED <<clusterNamespaces, clusterDeployments, clusterPods>>

deleteServiceIssue ==
    IssueStep("deleteService", "delete", "service", NAMESPACE, SERVICE_NAME)

deleteServiceReturn ==
    \E r \in DeleteOutcomes(ServiceExists) :
        /\ ReturnStep("deleteService", CleanSequence, r, <<>>)
        /\ clusterServices' =
              IF r = "ok"
              THEN SelectSeq(clusterServices,
                             LAMBDA s : ~(s.name = SERVICE_NAME /\ s.namespace = NAMESPACE))
              ELSE clusterServices
        /\ UNCHANGED <<clusterNamespaces, clusterDeployments, clusterPods>>

deleteDeploymentIssue ==
    IssueStep("deleteDeployment", "delete", "deployment", NAMESPACE, DEPLOYMENT_NAME)

deleteDeploymentReturn ==
    \E r \in DeleteOutcomes(DeploymentExists) :
        /\ ReturnStep("deleteDeployment", CleanSequence, r, <<>>)
        /\ clusterDeployments' =
              IF r = "ok"
              THEN SelectSeq(clusterDeployments,
                             LAMBDA d : ~(d.name = DEPLOYMENT_NAME /\ d.namespace = NAMESPACE))
              ELSE clusterDeployments
        /\ UNCHANGED <<clusterNamespaces, clusterServices, clusterPods>>

deleteNamespaceIssue ==
    IssueStep("deleteNamespace", "delete", "namespace", "", NAMESPACE)

deleteNamespaceReturn ==
    \E r \in DeleteOutcomes(NamespaceExists) :
        /\ ReturnStep("deleteNamespace", CleanSequence, r, <<>>)
        /\ clusterNamespaces' =
              IF r = "ok"
              THEN SelectSeq(clusterNamespaces, LAMBDA n : n # NAMESPACE)
              ELSE clusterNamespaces
        /\ UNCHANGED <<clusterDeployments, clusterServices, clusterPods>>

----------------------------------------------------------------------------
(* The typed REST lister: src/dynamicClient/main.go:118 ("restA") and       *)
(* src/restclientdemo-1/main.go:19 ("restB")                                *)

\* the pods of namespace ns, as a list call with item limit n returns them
ListPods(ns, n) == Take(SelectSeq(clusterPods, LAMBDA p : p.namespace = ns), n)

\* fmt.Printf("%v\t %v\t %v\n", d.Namespace, d.Status.Phase, d.Name) for every item
PrintRows(items) == [i \in 1..Len(items) |-> <<items[i].namespace, items[i].phase, items[i].name>>]

Header == <<"namespace status name">>

\* restClient, err := rest.RESTClientFor(config)
RESTClientFor(ok) ==
    /\ status = "running"
    /\ prog \in RestListers
    /\ pc = At("RESTClientFor")
    /\ IF ok THEN Continue("kubernetes.NewForConfig")
             ELSE Abort(ErrMsg("RESTClientFor", "invalid configuration"))
    /\ UNCHANGED <<runVars, clusterVars, loopVars, clientSet, calls, out>>

\* whether main tests err after kubernetes.NewForConfig: restB does
\* (restclientdemo-1/main.go:43), restA goes straight on to the namespace list
\* call, which assigns err again (dynamicClient/main.go:165-174)
ChecksClientSetErr(p) == p = "restB"

\* clientSet, err := kubernetes.NewForConfig(config)
NewClientSet(ok) ==
    /\ status = "running"
    /\ prog \in RestListers
    /\ pc = At("kubernetes.NewForConfig")
    /\ clientSet' = IF ok THEN "set" ELSE "nil"
    /\ IF ok
       THEN Continue("listNamespaces")
       ELSE IF ChecksClientSetErr(prog)
            THEN Abort(ErrMsg("kubernetes.NewForConfig", "invalid configuration"))
            ELSE /\ err' = ErrMsg("kubernetes.NewForConfig", "invalid configuration")
                 /\ failed' = err'
                 /\ pc' = At("listNamespaces")
                 /\ UNCHANGED <<status, panicMsg>>
    /\ UNCHANGED <<runVars, clusterVars, loopVars, calls, out>>

\* clientSet.CoreV1().Namespaces().List(...) is sent; CoreV1() of a nil
\* clientset is a nil pointer dereference, which ends the process before any call
listNamespacesIssue ==
    /\ status = "running"
    /\ prog \in RestListers
    /\ pc = At("listNamespaces")
    /\ IF clientSet = "nil"
       THEN /\ pc' = At("done")
            /\ status' = "panicked"
            /\ panicMsg' = ErrMsg("runtime error", "nil pointer dereference")
            /\ UNCHANGED <<calls, err, failed>>
       ELSE /\ Issue(Call("list", "namespaces", "", ""))
            /\ pc' = Waiting("listNamespaces")
            /\ UNCHANGED <<status, panicMsg, err, failed>>
    /\ UNCHANGED <<runVars, clusterVars, loopVars, clientSet, out>>

\* the namespace list returns: panic on an error, else the header line and
\* the first iteration of the range loop
listNamespacesReturn ==
    /\ status = "running"
    /\ prog \in RestListers
    /\ pc = Waiting("listNamespaces")
    /\ \E r \in ListOutcomes :
        /\ Return(r)
        /\ IF ErrNotNil(r)
           THEN /\ UNCHANGED <<namespaces, idx, out>>
                /\ Abort(ErrMsg("listNamespaces", r))
           ELSE /\ namespaces' = clusterNamespaces
                /\ idx' = 1
                /\ out' = Append(out, Header)
                /\ Continue(IF clusterNamespaces = <<>> THEN "exit" ELSE "listPods")
    /\ UNCHANGED <<runVars, clusterVars, result, clientSet>>

\* restClient.Get().Namespace(namespace).Resource("pods")...Do(...) is sent
listPodsIssue ==
    /\ status = "running"
    /\ prog \in RestListers
    /\ pc = At("listPods")
    /\ Issue(Call("list", "pods", namespaces[idx], ""))
    /\ pc' = Waiting("listPods")
    /\ UNCHANGED <<runVars, clusterVars, loopVars, clientSet, out,
                   status, panicMsg, err, failed>>

\* ...Into(result) returns: panic on an error, else one row per item of
\* result and the next namespace.  result is the one PodList of every
\* iteration; each response carries its own item list with the namespace,
\* phase and name of every item, so the rows are those of the response.
listPodsReturn ==
    /\ status = "running"
    /\ prog \in RestListers
    /\ pc = Waiting("listPods")
    /\ \E r \in ListOutcomes :
        /\ Return(r)
        /\ IF ErrNotNil(r)
           THEN /\ UNCHANGED <<result, out, idx>>
                /\ Abort(ErrMsg("listPods", r))
           ELSE /\ result' = ListPods(namespaces[idx], RestLimit)
                /\ out' = out \o PrintRows(result')
                /\ idx' = idx + 1
                /\ Continue(IF idx < Len(namespaces) THEN "listPods" ELSE "exit")
    /\ UNCHANGED <<runVars, clusterVars, namespaces, clientSet>>

----------------------------------------------------------------------------
(* The dynamic lister: src/dynamicClient/main.go:18 *)

\* the untyped form in which the dynamic client returns a pod
ToUnstructured(p) ==
    [metadata |-> [namespace |-> p.namespace, name |-> p.name],
     status   |-> [phase |-> p.phase]]

\* runtime.DefaultUnstructuredConverter.FromUnstructured, item by item
FromUnstructuredItems(items) ==
    [i \in 1..Len(items) |->
        Pod(items[i].metadata.namespace, items[i].metadata.name, items[i].status.phase)]

\* dynamicClient, err := dynamic.NewForConfig(config)
NewDynamicClient(ok) ==
    /\ status = "running"
    /\ prog = "dynamic"
    /\ pc = At("dynamic.NewForConfig")
    /\ IF ok THEN Continue("dynamicList")
             ELSE Abort(ErrMsg("dynamic.NewForConfig", "invalid configuration"))
    /\ UNCHANGED <<runVars, clusterVars, loopVars, clientSet, calls, out>>

\* dynamicClient.Resource(gvr).Namespace("kube-system").List(...) is sent
dynamicListIssue ==
    /\ status = "running"
    /\ prog = "dynamic"
    /\ pc = At("dynamicList")
    /\ Issue(Call("list", "pods", DynamicNamespace, ""))
    /\ pc' = Waiting("dynamicList")
    /\ UNCHANGED <<runVars, clusterVars, loopVars, clientSet, out,
                   status, panicMsg, err, failed>>

\* the list returns unstructObj, or an error and the panic
dynamicListReturn ==
    /\ status = "running"
    /\ prog = "dynamic"
    /\ pc = Waiting("dynamicList")
    /\ \E r \in ListOutcomes :
        /\ Return(r)
        /\ IF ErrNotNil(r)
           THEN /\ UNCHANGED result
                /\ Abort(ErrMsg("dynamicList", r))
           ELSE /\ result' = LET l == ListPods(DynamicNamespace, DynamicLimit)
                              IN  [i \in 1..Len(l) |-> ToUnstructured(l[i])]
                /\ Continue("FromUnstructured")
    /\ UNCHANGED <<runVars, clusterVars, namespaces, idx, clientSet, out>>

\* the conversion to podList, the header line and one row per item
FromUnstructured(ok) ==
    /\ status = "running"
    /\ prog = "dynamic"
    /\ pc = At("FromUnstructured")
    /\ IF ok
       THEN /\ out' = Append(out, Header) \o PrintRows(FromUnstructuredItems(result))
            /\ Continue("exit")
       ELSE /\ out' = out
            /\ Abort(ErrMsg("FromUnstructured", "conversion failed"))
    /\ UNCHANGED <<runVars, clusterVars, loopVars, clientSet, calls>>

----------------------------------------------------------------------------
(* Capability discovery: src/unnamed/part_000 *)

\* group-version strings are sequences of characters
Slash == "/"

CountSlash(s) == Cardinality({i \in 1..Len(s) : s[i] = Slash})

IndexSlash(s) == CHOOSE i \in 1..Len(s) : s[i] = Slash /\ \A j \in 1..(i - 1) : s[j] # Slash

\* a parse that takes a string without "/" for a group
ParseGroupVersionAsGroup(gv) ==
    IF Len(gv) = 0 \/ gv = <<Slash>>
    THEN [ok |-> TRUE, group |-> <<>>, version |-> <<>>]
    ELSE IF CountSlash(gv) = 0
    THEN [ok |-> TRUE, group |-> gv, version |-> <<>>]
    ELSE IF CountSlash(gv) = 1
    THEN [ok |-> TRUE, group |-> SubSeq(gv, 1, IndexSlash(gv) - 1),
          version |-> SubSeq(gv, IndexSlash(gv) + 1, Len(gv))]
    ELSE [ok |-> FALSE, group |-> <<>>, version |-> <<>>]

\* schema.ParseGroupVersion
ParseGroupVersion(gv) ==
    IF Len(gv) = 0 \/ gv = <<Slash>>
    THEN [ok |-> TRUE, group |-> <<>>, version |-> <<>>]
    ELSE IF CountSlash(gv) = 0
    THEN [ok |-> TRUE, group |-> <<>>, version |-> gv]
    ELSE IF CountSlash(gv) = 1
    THEN [ok |-> TRUE, group |-> SubSeq(gv, 1, IndexSlash(gv) - 1),
          version |-> SubSeq(gv, IndexSlash(gv) + 1, Len(gv))]
    ELSE [ok |-> FALSE, group |-> <<>>, version |-> <<>>]

\* schema.GroupVersion.String
GroupVersionString(g) ==
    IF Len(g.group) > 0 THEN g.group \o <<Slash>> \o g.version ELSE g.version

CoreV1 == <<"v", "1">>
AppsV1 == <<"a", "p", "p", "s", "/", "v", "1">>
BadGV == <<"a", "/", "b", "/", "c">>
SlashV1 == <<"/", "v", "1">>

\* responses of the discovery endpoint the model tries
DiscoveryResponses ==
    { [groups    |-> <<"", "apps">>,
       resources |-> << [GroupVersion |-> CoreV1, APIResources |-> <<"pods">>],
                        [GroupVersion |-> AppsV1, APIResources |-> <<"deployments">>] >>],
      [groups    |-> <<"">>,
       resources |-> << [GroupVersion |-> CoreV1, APIResources |-> <<"pods">>],
                        [GroupVersion |-> BadGV, APIResources |-> <<"things">>] >>],
      [groups    |-> <<"">>,
       resources |-> << [GroupVersion |-> SlashV1, APIResources |-> <<"pods">>] >>],
      [groups    |-> <<>>, resources |-> <<>>] }

\* discoveryClient, err := discovery.NewDiscoveryClientForConfig(config)
NewDiscoveryClientForConfig(ok) ==
    /\ status = "running"
    /\ prog = "discovery"
    /\ pc = At("NewDiscoveryClientForConfig")
    /\ IF ok THEN Continue("ServerGroupsAndResources")
             ELSE Abort(ErrMsg("NewDiscoveryClientForConfig", "invalid configuration"))
    /\ UNCHANGED <<runVars, clusterVars, loopVars, clientSet, calls, out>>

\* discoveryClient.ServerGroupsAndResources() is sent
ServerGroupsAndResourcesIssue ==
    /\ status = "running"
    /\ prog = "discovery"
    /\ pc = At("ServerGroupsAndResources")
    /\ Issue(Call("discovery", "groups", "", ""))
    /\ pc' = Waiting("ServerGroupsAndResources")
    /\ UNCHANGED <<runVars, clusterVars, loopVars, clientSet, out,
                   status, panicMsg, err, failed>>

\* the discovery call returns: panic on an error, else the group list is printed
ServerGroupsAndResourcesReturn ==
    /\ status = "running"
    /\ prog = "discovery"
    /\ pc = Waiting("ServerGroupsAndResources")
    /\ \E r \in ListOutcomes, d \in DiscoveryResponses :
        /\ Return(r)
        /\ IF ErrNotNil(r)
           THEN /\ UNCHANGED <<result, idx, out>>
                /\ Abort(ErrMsg("ServerGroupsAndResources", r))
           ELSE /\ result' = d.resources
                /\ idx' = 1
                /\ out' = Append(out, <<"APIGroup", d.groups>>)
                /\ Continue(IF d.resources = <<>> THEN "exit" ELSE "ParseGroupVersion")
    /\ UNCHANGED <<runVars, clusterVars, namespaces, clientSet>>

\* one iteration of the range loop over APIResourceListSlice
ParseGroupVersionStep ==
    /\ status = "running"
    /\ prog = "discovery"
    /\ pc = At("ParseGroupVersion")
    /\ LET groupVersionStr == result[idx].GroupVersion
           gv == ParseGroupVersion(groupVersionStr)
       IN  IF gv.ok
           THEN /\ out' = (out \o << <<"GV string", groupVersionStr, "GV struct",
                                       [group |-> gv.group, version |-> gv.version]>> >>)
                           \o [i \in 1..Len(result[idx].APIResources) |->
                                  <<result[idx].APIResources[i]>>]
                /\ idx' = idx + 1
                /\ Continue(IF idx < Len(result) THEN "ParseGroupVersion" ELSE "exit")
           ELSE /\ UNCHANGED <<out, idx>>
                /\ Abort(ErrMsg("ParseGroupVersion", "unexpected GroupVersion string"))
    /\ UNCHANGED <<runVars, clusterVars, namespaces, result, clientSet, calls>>

----------------------------------------------------------------------------
(* Specification *)

Next ==
    \/ \E p \in Programs, flag \in OperateValues : StartRun(p, flag)
    \/ \E ok \in BOOLEAN : BuildConfigFromFlags(ok)
    \/ \E ok \in BOOLEAN : NewForConfig(ok)
    \/ createNamespaceIssue
    \/ createNamespaceReturn
    \/ createDeploymentIssue
    \/ createDeploymentReturn
    \/ createServiceIssue
    \/ createServiceReturn
    \/ deleteServiceIssue
    \/ deleteServiceReturn
    \/ deleteDeploymentIssue
    \/ deleteDeploymentReturn
    \/ deleteNamespaceIssue
    \/ deleteNamespaceReturn
    \/ \E ok \in BOOLEAN : RESTClientFor(ok)
    \/ \E ok \in BOOLEAN : NewClientSet(ok)
    \/ listNamespacesIssue
    \/ listNamespacesReturn
    \/ listPodsIssue
    \/ listPodsReturn
    \/ \E ok \in BOOLEAN : NewDynamicClient(ok)
    \/ dynamicListIssue
    \/ dynamicListReturn
    \/ \E ok \in BOOLEAN : FromUnstructured(ok)
    \/ \E ok \in BOOLEAN : NewDiscoveryClientForConfig(ok)
    \/ ServerGroupsAndResourcesIssue
    \/ ServerGroupsAndResourcesReturn
    \/ ParseGroupVersionStep

Spec == Init /\ [][Next]_vars

\* the steps a running program takes by itself: every statement of main up to
\* and including the sending of a call
ProgramStep ==
    \/ \E ok \in BOOLEAN : BuildConfigFromFlags(ok)
    \/ \E ok \in BOOLEAN : NewForConfig(ok)
    \/ createNamespaceIssue
    \/ createDeploymentIssue
    \/ createServiceIssue
    \/ deleteServiceIssue
    \/ deleteDeploymentIssue
    \/ deleteNamespaceIssue
    \/ \E ok \in BOOLEAN : RESTClientFor(ok)
    \/ \E ok \in BOOLEAN : NewClientSet(ok)
    \/ listNamespacesIssue
    \/ listPodsIssue
    \/ \E ok \in BOOLEAN : NewDynamicClient(ok)
    \/ dynamicListIssue
    \/ \E ok \in BOOLEAN : FromUnstructured(ok)
    \/ \E ok \in BOOLEAN : NewDiscoveryClientForConfig(ok)
    \/ ServerGroupsAndResourcesIssue
    \/ ParseGroupVersionStep

\* the return of the call the program is blocked in; the calls are made with
\* context.TODO() and no timeout, so only the cluster's answer ends them
CallReturns ==
    \/ createNamespaceReturn
    \/ createDeploymentReturn
    \/ createServiceReturn
    \/ deleteServiceReturn
    \/ deleteDeploymentReturn
    \/ deleteNamespaceReturn
    \/ listNamespacesReturn
    \/ listPodsReturn
    \/ dynamicListReturn
    \/ ServerGroupsAndResourcesReturn

\* the process is scheduled, and every cluster call eventually returns
FairSpec == Init /\ [][Next]_vars /\ WF_vars(ProgramStep) /\ WF_vars(CallReturns)

----------------------------------------------------------------------------
(* Properties *)

\* a call of the log that returned an error
CallFailed(c) == c.result \notin {"ok", "pending"}

\* whether the named object of a kind is in the cluster
Present(kind) ==
    CASE kind = "namespace"  -> "test-clientset" \in Range(clusterNamespaces)
      [] kind = "deployment" -> \E i \in 1..Len(clusterDeployments) :
                                    clusterDeployments[i].name = "client-test-deployment"
      [] kind = "service"    -> \E i \in 1..Len(clusterServices) :
                                    clusterServices[i].name = "client-test-service"

\* C1: a provisioner run in create mode that started on a cluster holding
\* none of the three objects and in which no step returned an error ends
\* normally with exactly one namespace test-clientset, one deployment
\* client-test-deployment and one service client-test-service in that
\* namespace, and the deployment's selector, its pod template labels and the
\* service's selector all equal {app: tomcat}.
C1_CreateOnEmptyCluster ==
    (/\ prog \in Provisioners
     /\ operate # "clean"
     /\ before = EmptyGroup
     /\ pc = At("done")
     /\ failed = Nil)
    => /\ status = "exited"
       /\ Cardinality({i \in 1..Len(clusterNamespaces) :
                          clusterNamespaces[i] = "test-clientset"}) = 1
       /\ Len(clusterDeployments) = 1
       /\ clusterDeployments[1].name = "client-test-deployment"
       /\ clusterDeployments[1].namespace = "test-clientset"
       /\ Len(clusterServices) = 1
       /\ clusterServices[1].name = "client-test-service"
       /\ clusterServices[1].namespace = "test-clientset"
       /\ clusterDeployments[1].selector = [app |-> "tomcat"]
       /\ clusterDeployments[1].templateLabels = clusterDeployments[1].selector
       /\ clusterServices[1].selector = clusterDeployments[1].selector

C1_Witness ==
    /\ prog \in Provisioners
    /\ operate = "create"
    /\ before = EmptyGroup
    /\ status = "exited"
    /\ Len(calls) = 3
    /\ Present("service")

\* C2: a clean run in which no step returned an error, made right after a
\* create run that started on an empty cluster and ended normally, leaves no
\* namespace test-clientset, no deployment and no service.
C2_CreateThenClean ==
    (/\ prog \in Provisioners
     /\ operate = "clean"
     /\ prev.kind = "create"
     /\ prev.ok
     /\ prev.fromEmpty
     /\ pc = At("done")
     /\ failed = Nil)
    => /\ status = "exited"
       /\ ~Present("namespace")
       /\ ~Present("deployment")
       /\ ~Present("service")
       /\ clusterDeployments = <<>>
       /\ clusterServices = <<>>

C2_Witness ==
    /\ prog \in Provisioners
    /\ operate = "clean"
    /\ prev.kind = "create"
    /\ prev.ok
    /\ prev.fromEmpty
    /\ status = "exited"
    /\ Len(calls) = 3
    /\ ~Present("namespace")

\* C3: in create mode the calls of a run are creates of the namespace, the
\* deployment and the service, in that order, and each but the first is
\* issued only after the one before it has returned success.
C3_CreateOrder ==
    (prog \in Provisioners /\ operate # "clean")
    => /\ Len(calls) <= 3
       /\ \A i \in 1..Len(calls) :
            /\ calls[i].verb = "create"
            /\ calls[i].kind = <<"namespace", "deployment", "service">>[i]
            /\ i > 1 => calls[i - 1].result = "ok"

C3_Witness ==
    /\ prog \in Provisioners
    /\ operate # "clean"
    /\ Len(calls) = 3
    /\ calls[3].kind = "service"
    /\ calls[3].result = "pending"

\* C4: in clean mode the calls of a run are deletes of the service, the
\* deployment and the namespace, in that order, and each but the first is
\* issued only after the one before it has returned success; the namespace
\* delete is never issued while another delete is outstanding.
C4_CleanOrder ==
    (prog \in Provisioners /\ operate = "clean")
    => /\ Len(calls) <= 3
       /\ \A i \in 1..Len(calls) :
            /\ calls[i].verb = "delete"
            /\ calls[i].kind = <<"service", "deployment", "namespace">>[i]
            /\ i > 1 => calls[i - 1].result = "ok"
       /\ \A i \in 1..Len(calls) :
            calls[i].kind = "namespace"
               => \A j \in 1..Len(calls) : j # i => calls[j].result # "pending"

C4_Witness ==
    /\ prog \in Provisioners
    /\ operate = "clean"
    /\ Len(calls) = 3
    /\ calls[3].kind = "namespace"
    /\ calls[3].result = "pending"

\* C5: in create mode a create call that returns an error is the last call
\* of the run: the process has panicked with that error, no delete call was
\* made, and every object created by the calls before it is still in the
\* cluster; after a rejected deployment create the namespace is present and
\* no service create was requested.
C5_NoRollback ==
    (prog \in Provisioners /\ operate # "clean")
    => \A k \in 1..Len(calls) :
          CallFailed(calls[k])
          => /\ k = Len(calls)
             /\ status = "panicked"
             /\ panicMsg # Nil
             /\ panicMsg[2] = calls[k].result
             /\ \A j \in 1..Len(calls) : calls[j].verb # "delete"
             /\ \A j \in 1..(k - 1) : Present(calls[j].kind)
             /\ calls[k].kind = "deployment"
                  => /\ Present("namespace")
                     /\ \A j \in 1..Len(calls) : calls[j].kind # "service"

C5_Witness ==
    /\ prog \in Provisioners
    /\ operate # "clean"
    /\ Len(calls) = 2
    /\ calls[2].kind = "deployment"
    /\ CallFailed(calls[2])
    /\ status = "panicked"
    /\ Present("namespace")

\* C6: in clean mode a delete call that returns an error is the last call
\* of the run: the process has panicked with that error, the objects of the
\* steps after it are as they were when the run started, and the objects
\* deleted by the steps before it are still gone.
C6_CleanAborts ==
    (prog \in Provisioners /\ operate = "clean")
    => \A k \in 1..Len(calls) :
          CallFailed(calls[k])
          => /\ k = Len(calls)
             /\ status = "panicked"
             /\ panicMsg # Nil
             /\ panicMsg[2] = calls[k].result
             /\ \A j \in 1..Len(calls) : calls[j].verb = "delete"
             /\ calls[k].kind \in {"service", "deployment"}
                  => Group.namespaces = before.namespaces
             /\ calls[k].kind = "service" => clusterDeployments = before.deployments
             /\ \A j \in 1..(k - 1) : ~Present(calls[j].kind)

C6_Witness ==
    /\ prog \in Provisioners
    /\ operate = "clean"
    /\ Len(calls) = 2
    /\ calls[2].kind = "deployment"
    /\ CallFailed(calls[2])
    /\ status = "panicked"
    /\ before.services # <<>>
    /\ Present("namespace")
    /\ ~Present("service")

\* C7: a run whose -operate value is clean makes delete calls only, a run
\* with any other value (create, or an unrecognised string) makes create
\* calls only; no run makes both a create and a delete call.
C7_BranchByFlag ==
    prog \in Provisioners
    => /\ operate = "clean" => \A i \in 1..Len(calls) : calls[i].verb = "delete"
       /\ operate # "clean" => \A i \in 1..Len(calls) : calls[i].verb = "create"
       /\ ~(\E i, j \in 1..Len(calls) :
               calls[i].verb = "create" /\ calls[j].verb = "delete")

C7_Witness ==
    /\ prog \in Provisioners
    /\ operate = "delete"
    /\ Len(calls) >= 1
    /\ calls[1].verb = "create"
    /\ calls[1].kind = "namespace"

\* the two listers have both run to their normal end, one right after the other
BothListersDone ==
    /\ status = "exited"
    /\ prev.ok
    /\ \/ prog = "dynamic" /\ prev.kind = "rest"
       \/ prog \in RestListers /\ prev.kind = "dynamic"

\* C8 as stated: whatever the pod set, the dynamic lister and the typed REST
\* lister print the same rows.
C8_ListersAgree == BothListersDone => Rows(out) = prev.rows

\* C8 as amended: when every pod lives in namespace kube-system and there
\* are at most 100 of them, the dynamic lister and the typed REST lister
\* print the same rows.
C8_ListersAgreeInKubeSystem ==
    (/\ BothListersDone
     /\ Len(clusterPods) <= 100
     /\ \A i \in 1..Len(clusterPods) : clusterPods[i].namespace = "kube-system")
    => Rows(out) = prev.rows

C8_Witness ==
    /\ BothListersDone
    /\ prog = "dynamic"
    /\ \A i \in 1..Len(clusterPods) : clusterPods[i].namespace = "kube-system"
    /\ Len(Rows(out)) >= 1
    /\ Rows(out) = prev.rows

\* the rows of the pods of the first n namespaces the REST lister enumerated
RECURSIVE RowsOfFirst(_)
RowsOfFirst(n) ==
    IF n = 0 THEN <<>>
    ELSE LET pods == SelectSeq(clusterPods, LAMBDA p : p.namespace = namespaces[n])
         IN  RowsOfFirst(n - 1)
                \o [i \in 1..Len(pods) |-> <<pods[i].namespace, pods[i].phase, pods[i].name>>]

\* C9: in the typed REST lister a pod list call that returns an error is
\* the last call of the run: the process has panicked with that error, the
\* rows printed are those of the namespaces before the failing one, no row
\* of the failing namespace is printed and no namespace after it is listed.
C9_PodListFailure ==
    prog \in RestListers
    => \A k \in 1..Len(calls) :
          (calls[k].kind = "pods" /\ CallFailed(calls[k]))
          => /\ k = Len(calls)
             /\ status = "panicked"
             /\ panicMsg # Nil
             /\ panicMsg[2] = calls[k].result
             /\ calls[k].ns = namespaces[k - 1]
             /\ \A j \in 1..(k - 1) : calls[j].result = "ok"
             /\ Rows(out) = RowsOfFirst(k - 2)
             /\ \A i \in 1..Len(out) : Len(out[i]) = 3 => out[i][1] # calls[k].ns

C9_Witness ==
    /\ prog \in RestListers
    /\ Len(calls) = 3
    /\ calls[3].kind = "pods"
    /\ CallFailed(calls[3])
    /\ status = "panicked"
    /\ Len(Rows(out)) >= 1
    /\ \E i \in 1..Len(clusterPods) : clusterPods[i].namespace = calls[3].ns

\* C10: in every program a step that returned an error has ended the
\* process with that error's message; no program goes on after an error.
C10_EveryErrorChecked ==
    failed # Nil => (status = "panicked" /\ panicMsg = failed)

\* the number of lines the discovery program has printed once it has gone
\* through the first n entries of the response: the group list, and for each
\* entry its group-version line and one line per resource kind
RECURSIVE DiscoveryLines(_)
DiscoveryLines(n) ==
    IF n = 0 THEN 1 ELSE DiscoveryLines(n - 1) + 1 + Len(result[n].APIResources)

\* the discovery call has returned a response
DiscoveryAnswered ==
    /\ prog = "discovery"
    /\ Len(calls) = 1
    /\ calls[1].result = "ok"

\* the printed group-version line of entry i carries the entry's string and
\* is followed by the entry's resource kinds
DiscoveryEntryPrinted(i) ==
    LET at == DiscoveryLines(i - 1) + 1
    IN  /\ Len(out[at]) = 4
        /\ out[at][2] = result[i].GroupVersion
        /\ \A j \in 1..Len(result[i].APIResources) :
              out[at + j] = <<result[i].APIResources[j]>>

\* C11 as stated: every group-version string the program prints is printed
\* with a (group, version) pair that re-serialises to that string.
C11_RoundTripAlways ==
    DiscoveryAnswered
    => \A k \in 1..Len(out) :
          Len(out[k]) = 4 => GroupVersionString(out[k][4]) = out[k][2]

\* C11 as amended: after a successful discovery call the program prints the
\* group list and then, entry by entry in response order, the group-version
\* string with its parsed pair and the entry's resource kinds; the pair
\* re-serialises to the string unless the string begins with "/"; a string
\* with more than one "/" ends the run in a panic, and so does a discovery
\* error, with nothing printed.
C11_Discovery ==
    /\ DiscoveryAnswered
       => /\ Len(out) = DiscoveryLines(idx - 1)
          /\ out[1][1] = "APIGroup"
          /\ \A i \in 1..(idx - 1) :
                /\ DiscoveryEntryPrinted(i)
                /\ result[i].GroupVersion[1] # "/"
                     => GroupVersionString(out[DiscoveryLines(i - 1) + 1][4])
                           = result[i].GroupVersion
          /\ status = "exited"
               => /\ idx = Len(result) + 1
                  /\ \A i \in 1..Len(result) :
                        Cardinality({k \in 1..Len(result[i].GroupVersion) :
                                        result[i].GroupVersion[k] = "/"}) <= 1
          /\ status = "panicked"
               => /\ panicMsg[1] = "ParseGroupVersion"
                  /\ Cardinality({k \in 1..Len(result[idx].GroupVersion) :
                                     result[idx].GroupVersion[k] = "/"}) > 1
          /\ (status = "exited" /\ out[1][2] = <<"", "apps">>)
               => /\ \E k \in 1..Len(out) : Len(out[k]) = 4 /\ out[k][2] = <<"v", "1">>
                  /\ \E k \in 1..Len(out) :
                        Len(out[k]) = 4 /\ out[k][2] = <<"a", "p", "p", "s", "/", "v", "1">>
                  /\ <<"pods">> \in Range(out)
                  /\ <<"deployments">> \in Range(out)
    /\ (prog = "discovery" /\ Len(calls) = 1 /\ CallFailed(calls[1]))
       => /\ status = "panicked"
          /\ panicMsg[2] = calls[1].result
          /\ out = <<>>

C11_Witness ==
    /\ DiscoveryAnswered
    /\ status = "exited"
    /\ out[1][2] = <<"", "apps">>
    /\ Len(result) = 2
    /\ out[4][4] = [group |-> <<"a", "p", "p", "s">>, version |-> <<"v", "1">>]
    /\ out[5] = <<"deployments">>

\* C12: no cluster call is retried.  The log of a provisioner run holds at
\* most three calls, all creates or all deletes, no two for the same kind of
\* object; the dynamic lister's log holds at most one call, and exactly one
\* list call once the run has exited; the log of a typed REST lister starts
\* with the namespace list call and goes on with one pod list call per
\* returned namespace, in the order returned; and no program issues a call
\* after one that failed.
C12_NoRetry ==
    /\ \A i \in 1..(Len(calls) - 1) : calls[i].result = "ok"
    /\ prog \in Provisioners
       => /\ Len(calls) <= 3
          /\ \A i, j \in 1..Len(calls) :
                /\ calls[i].verb = calls[1].verb
                /\ calls[i].verb \in {"create", "delete"}
                /\ i # j => calls[i].kind # calls[j].kind
    /\ prog = "dynamic"
       => /\ Len(calls) <= 1
          /\ status = "exited" => Len(calls) = 1
          /\ \A i \in 1..Len(calls) : calls[i].verb = "list" /\ calls[i].kind = "pods"
    /\ prog \in {"restA", "restB"}
       => /\ Len(calls) <= 1 + Len(namespaces)
          /\ status = "exited" => Len(calls) = 1 + Len(namespaces)
          /\ \A i, j \in 1..Len(namespaces) : i # j => namespaces[i] # namespaces[j]
          /\ \A k \in 1..Len(calls) :
                /\ calls[k].verb = "list"
                /\ k = 1 => calls[k].kind = "namespaces"
                /\ k > 1 => /\ calls[k].kind = "pods"
                            /\ calls[k].ns = namespaces[k - 1]

C12_Witness ==
    /\ prog \in {"restA", "restB"}
    /\ status = "exited"
    /\ Len(namespaces) = 3
    /\ Len(calls) = 4
    /\ calls[4].ns = namespaces[3]

\* the program is blocked in a cluster call
Blocked == status = "running" /\ pc[2] = "wait"

\* C13: when every cluster call eventually returns, a running program
\* eventually reaches a terminal state (exit or panic); a program with a
\* pending call is blocked in it, and the only step it takes from there is
\* the return of that very call: until then it issues no call, prints
\* nothing and does not end.
C13_Termination ==
    /\ (status = "running") ~> (status \in {"exited", "panicked"})
    /\ [](/\ (calls # <<>> /\ Last(calls).result = "pending") => Blocked
          /\ Blocked => (calls # <<>> /\ Last(calls).result = "pending"))
    /\ [][Blocked => /\ Len(calls') = Len(calls)
                     /\ Last(calls').result # "pending"
                     /\ \A i \in 1..(Len(calls) - 1) : calls'[i] = calls[i]]_vars

C13_Witness ==
    /\ prog \in {"restA", "restB"}
    /\ status = "exited"
    /\ Len(calls) = 3
    /\ Last(calls).result = "ok"

\* a provisioner run in clean mode that started with the service missing
CleanWithoutService ==
    /\ prog \in Provisioners
    /\ operate = "clean"
    /\ before.services = <<>>

\* C14: a clean run that starts when the service does not exist issues one
\* call only, the service delete, which the cluster rejects; the run ends in
\* a panic with that error and never exits normally, and the namespace and
\* the deployments are throughout as they were when the run started.  This
\* is the case after a create run that aborted, and after a clean run that
\* succeeded: a second clean run does not repeat the outcome of the first.
C14_CleanNoRepair ==
    /\ CleanWithoutService
       => /\ Len(calls) <= 1
          /\ status # "exited"
          /\ Group = before
          /\ \A k \in 1..Len(calls) :
                /\ calls[k].verb = "delete"
                /\ calls[k].kind = "service"
                /\ calls[k].name = "client-test-service"
                /\ calls[k].result \in {"pending", "NotFound", "Unavailable"}
                /\ calls[k].result # "pending"
                     => /\ status = "panicked"
                        /\ panicMsg = <<"deleteService", calls[k].result>>
    /\ (prog \in Provisioners /\ operate = "clean" /\ prev.kind = "clean" /\ prev.ok)
       => before.services = <<>>

C14_Witness ==
    /\ CleanWithoutService
    /\ prev.kind = "create"
    /\ ~prev.ok
    /\ before.namespaces = <<"test-clientset">>
    /\ Len(before.deployments) = 1
    /\ status = "panicked"
    /\ Len(calls) = 1
    /\ calls[1].result = "NotFound"
    /\ Len(clusterDeployments) = 1
    /\ "test-clientset" \in Range(clusterNamespaces)

\* a provisioner run in create mode that started with the namespace present
CreateOverNamespace ==
    /\ prog \in Provisioners
    /\ operate # "clean"
    /\ before.namespaces # <<>>

\* C15: a create run that starts when the namespace exists issues one call
\* only, the namespace create, which the cluster rejects; the run ends in a
\* panic, no deployment or service create is issued, and the cluster is
\* throughout as it was when the run started.  Whatever runs came before,
\* the cluster holds at most one namespace "test-clientset", one deployment
\* and one service.
C15_CreateNoDuplicate ==
    /\ CreateOverNamespace
       => /\ Len(calls) <= 1
          /\ status # "exited"
          /\ Group = before
          /\ \A k \in 1..Len(calls) :
                /\ calls[k].verb = "create"
                /\ calls[k].kind = "namespace"
                /\ calls[k].result \in {"pending", "AlreadyExists", "Unavailable"}
                /\ calls[k].result # "pending"
                     => /\ status = "panicked"
                        /\ panicMsg = <<"createNamespace", calls[k].result>>
    /\ Cardinality({i \in 1..Len(clusterNamespaces) :
                       clusterNamespaces[i] = "test-clientset"}) <= 1
    /\ Cardinality({i \in 1..Len(clusterDeployments) :
                       clusterDeployments[i].name = "client-test-deployment"}) <= 1
    /\ Cardinality({i \in 1..Len(clusterServices) :
                       clusterServices[i].name = "client-test-service"}) <= 1

C15_Witness ==
    /\ CreateOverNamespace
    /\ prev.kind = "create"
    /\ prev.ok
    /\ status = "panicked"
    /\ Len(calls) = 1
    /\ calls[1].result = "AlreadyExists"
    /\ Len(clusterDeployments) = 1
    /\ Len(clusterServices) = 1

====
